---- MODULE Spec2Model ----
(***************************************************************************)
(* Model of the AI newsletter worker (src/src/index.ts): the scheduled     *)
(* pipeline load -> fetch -> summarize -> compose -> deliver, and the pure *)
(* functions it is built from.                                             *)
(*                                                                         *)
(* A JavaScript string is a sequence of one-character strings.  A value    *)
(* that the code reads from JSON or from the database (typed `any`) is a   *)
(* tagged record: Str(s), Null (null or undefined) or Num (a truthy value  *)
(* that is not a string, such as a number or an object).                   *)
(***************************************************************************)
EXTENDS Integers, Sequences, FiniteSets, TLC

\* ------------------------------------------------------------------------
\* JavaScript values and strings
\* ------------------------------------------------------------------------
Null == [t |-> "null", v |-> <<>>]

Num == [t |-> "num", v |-> <<>>]

Str(s) == [t |-> "str", v |-> s]

\* JavaScript truthiness: null, undefined and "" are falsy.
Truthy(x) == \/ x.t = "num"
             \/ x.t = "str" /\ x.v # <<>>

\* a || b
OrElse(a, b) == IF Truthy(a) THEN a ELSE b

IsSpace(ch) == ch \in {" ", "\n", "\t"}

RECURSIVE TrimLeft(_)
TrimLeft(s) == IF s # <<>> /\ IsSpace(Head(s)) THEN TrimLeft(Tail(s)) ELSE s

RECURSIVE TrimRight(_)
TrimRight(s) == IF s # <<>> /\ IsSpace(s[Len(s)])
                THEN TrimRight(SubSeq(s, 1, Len(s) - 1))
                ELSE s

\* String.prototype.trim
Trim(s) == TrimRight(TrimLeft(s))

\* String.prototype.substring(from, to) with 0-based, end-exclusive indices
Substring(s, from, to) ==
    LET hi == IF to > Len(s) THEN Len(s) ELSE to
    IN  SubSeq(s, from + 1, hi)

\* n copies of the character ch
Rep(n, ch) == [i \in 1..n |-> ch]

LowerChars == <<"a","b","c","d","e","f","g","h","i","j","k","l","m",
                "n","o","p","q","r","s","t","u","v","w","x","y","z">>

UpperChars == <<"A","B","C","D","E","F","G","H","I","J","K","L","M",
                "N","O","P","Q","R","S","T","U","V","W","X","Y","Z">>

ToUpperChar(ch) ==
    IF \E i \in 1..Len(LowerChars) : LowerChars[i] = ch
    THEN UpperChars[CHOOSE i \in 1..Len(LowerChars) : LowerChars[i] = ch]
    ELSE ch

\* String.prototype.toUpperCase
ToUpperCase(s) == [i \in 1..Len(s) |-> ToUpperChar(s[i])]

\* String.prototype.split(sep) for a one-character separator: always at
\* least one piece, empty pieces kept.
RECURSIVE Split(_, _)
Split(s, sep) ==
    IF \A i \in 1..Len(s) : s[i] # sep
    THEN <<s>>
    ELSE LET k == CHOOSE i \in 1..Len(s) :
                     s[i] = sep /\ \A j \in 1..(i - 1) : s[j] # sep
         IN  <<SubSeq(s, 1, k - 1)>> \o Split(SubSeq(s, k + 1, Len(s)), sep)

\* Array.prototype.join(sep) on an array of strings
RECURSIVE Join(_, _)
Join(list, sep) ==
    IF list = <<>> THEN <<>>
    ELSE IF Len(list) = 1 THEN list[1]
    ELSE list[1] \o sep \o Join(Tail(list), sep)

\* Mutant: the last n elements are kept.
SliceLast(list, n) ==
    SubSeq(list, IF Len(list) < n THEN 1 ELSE Len(list) - n + 1, Len(list))

\* Mutant: the whole array is returned.
SliceAll(list, n) == list

\* Array.prototype.slice(0, n)
Slice(list, n) == SubSeq(list, 1, IF Len(list) < n THEN Len(list) ELSE n)

\* ------------------------------------------------------------------------
\* Summarizer (src/src/index.ts:60-99)
\* ------------------------------------------------------------------------
\* Longest fallback summary returned unchanged.
SummaryLimit == 200

\* Characters kept of a longer one, before the ellipsis.
SummaryKeep == 197

Ellipsis == <<".", ".", ".">>

\* What a call hands back to its caller: a value, or a thrown exception.
\* aiCalled: the model request was issued; errors: console.error calls.
Returned(x, called, errs) ==
    [threw |-> FALSE, value |-> x, aiCalled |-> called, errors |-> errs]

Thrown(called, errs) ==
    [threw |-> TRUE, value |-> Null, aiCalled |-> called, errors |-> errs]

\* Mutant: the title is preferred to the description.
createFallbackSummaryTitleFirst(article) ==
    LET description == OrElse(article.title, article.description)
    IN  IF description.t = "null" THEN [threw |-> TRUE, value |-> Null]
        ELSE IF description.t = "str" /\ Len(description.v) > SummaryLimit
        THEN [threw |-> FALSE,
              value |-> Str(Substring(description.v, 0, SummaryKeep) \o Ellipsis)]
        ELSE [threw |-> FALSE, value |-> description]

\* createFallbackSummary: description || title, cut to 197 characters and
\* "..." when longer than 200.  Reading .length of null throws.
createFallbackSummary(article) ==
    LET description == OrElse(article.description, article.title)
    IN  IF description.t = "null" THEN [threw |-> TRUE, value |-> Null]
        ELSE IF description.t = "str" /\ Len(description.v) > SummaryLimit
        THEN [threw |-> FALSE,
              value |-> Str(Substring(description.v, 0, SummaryKeep) \o Ellipsis)]
        ELSE [threw |-> FALSE, value |-> description]

\* The catch block of summarizeArticleWithLlama (lines 87-90): one
\* console.error, then the fallback; an exception of the fallback leaves
\* the function.
SummarizeCatch(article, called) ==
    LET fb == createFallbackSummary(article)
    IN  IF fb.threw THEN Thrown(called, 1) ELSE Returned(fb.value, called, 1)

\* Line 79: response && response.response
UsableResponse(ai) ==
    /\ ai.kind = "object"
    /\ Truthy(ai.response)

\* summarizeArticleWithLlama(article, ai).  ai is what ai.run does:
\*   kind "throw"  : the call rejects
\*   kind "null"   : it resolves to null or undefined
\*   kind "string" : it resolves to a bare string (no .response field)
\*   kind "object" : it resolves to an object whose .response is ai.response
\*                   (Null when the field is absent)
summarizeArticleWithLlama(article, ai) ==
    IF article.title.t # "str"
    THEN \* line 69: article.title.substring throws before the model call
         SummarizeCatch(article, FALSE)
    ELSE IF ai.kind = "throw"
    THEN SummarizeCatch(article, TRUE)
    ELSE IF UsableResponse(ai)
    THEN IF ai.response.t = "str"
         THEN Returned(Str(Trim(ai.response.v)), TRUE, 0)
         ELSE \* .trim is not a function
              SummarizeCatch(article, TRUE)
    ELSE \* line 85: the fallback is called inside the try
         LET fb == createFallbackSummary(article)
         IN  IF fb.threw THEN SummarizeCatch(article, TRUE)
             ELSE Returned(fb.value, TRUE, 0)

\* ------------------------------------------------------------------------
\* Article source (src/src/index.ts:22-55)
\* ------------------------------------------------------------------------
\* Articles kept by fetchNewsForCategories (slice(0, 10)).
ArticleCap == 10

\* {...article, category: category}
Tag(article, category) ==
    [title |-> article.title, description |-> article.description,
     content |-> article.content, url |-> article.url,
     source |-> article.source, category |-> category]

TagAll(list, category) == [i \in 1..Len(list) |-> Tag(list[i], category)]

\* Mutant: a failed request leaves the function as an exception.
fetchCategoryThrowing(category, resp) ==
    IF resp.kind = "json" /\ resp.status = "ok" /\ resp.articles.t = "list"
    THEN [articles |-> TagAll(resp.articles.v, category), errors |-> 0,
          threw |-> FALSE]
    ELSE [articles |-> <<>>, errors |-> 0, threw |-> TRUE]

\* One turn of the loop of fetchNewsForCategories (lines 26-50) for the
\* response resp of the source:
\*   kind "throw"   : fetch rejects (network error)
\*   kind "notok"   : a response whose ok is false
\*   kind "badjson" : response.json() rejects
\*   kind "json"    : a parsed body; status "null" is the body null;
\*                    articles is a list, missing, or a truthy non-array
\* Every failure ends in one console.error and the next category.
fetchCategory(category, resp) ==
    IF resp.kind = "json" /\ resp.status = "ok" /\ resp.articles.t = "list"
    THEN [articles |-> TagAll(resp.articles.v, category), errors |-> 0,
          threw |-> FALSE]
    ELSE [articles |-> <<>>, errors |-> 1, threw |-> FALSE]

\* ------------------------------------------------------------------------
\* Digest composer (src/src/index.ts:213-246)
\* ------------------------------------------------------------------------
Digits == <<"0","1","2","3","4","5","6","7","8","9">>

IsDigit(ch) == \E i \in 1..Len(Digits) : Digits[i] = ch

DigitValue(ch) == (CHOOSE i \in 1..Len(Digits) : Digits[i] = ch) - 1

\* A property key that JavaScript treats as an array index: a canonical
\* decimal numeral (keys in the model are far below 2^32 - 1).
IsIndexKey(s) ==
    /\ s # <<>>
    /\ \A i \in 1..Len(s) : IsDigit(s[i])
    /\ Len(s) > 1 => s[1] # "0"

RECURSIVE NumValue(_)
NumValue(s) ==
    IF s = <<>> THEN 0
    ELSE 10 * NumValue(SubSeq(s, 1, Len(s) - 1)) + DigitValue(s[Len(s)])

\* Keys that {} inherits from Object.prototype: byCategory[key] is truthy
\* before anything is stored, and has no push.
InheritedKeys ==
    { <<"c","o","n","s","t","r","u","c","t","o","r">>,
      <<"t","o","S","t","r","i","n","g">>,
      <<"v","a","l","u","e","O","f">>,
      <<"_","_","p","r","o","t","o","_","_">> }

\* The distinct categories of the items, in first-seen order.
RECURSIVE FirstSeen(_, _)
FirstSeen(items, seen) ==
    IF items = <<>> THEN seen
    ELSE IF \E i \in 1..Len(seen) : seen[i] = Head(items).category
    THEN FirstSeen(Tail(items), seen)
    ELSE FirstSeen(Tail(items), Append(seen, Head(items).category))

\* Ascending sort of index keys by numeric value.
RECURSIVE SortIndexKeys(_)
SortIndexKeys(keys) ==
    IF keys = <<>> THEN <<>>
    ELSE LET m == CHOOSE i \in 1..Len(keys) :
                     \A j \in 1..Len(keys) : NumValue(keys[i]) <= NumValue(keys[j])
         IN  <<keys[m]>> \o
             SortIndexKeys(SubSeq(keys, 1, m - 1) \o SubSeq(keys, m + 1, Len(keys)))

\* Object.keys(byCategory): index keys ascending, then the other keys in
\* insertion order.
ObjectKeys(items) ==
    LET seen == FirstSeen(items, <<>>)
    IN  SortIndexKeys(SelectSeq(seen, IsIndexKey))
        \o SelectSeq(seen, LAMBDA k : ~IsIndexKey(k))

\* The numbered entries of one section.
SectionItems(items, category) ==
    LET mine == SelectSeq(items, LAMBDA it : it.category = category)
    IN  [i \in 1..Len(mine) |->
            [n |-> i, title |-> mine[i].article.title,
             summary |-> mine[i].summary,
             source |-> mine[i].article.source,
             url |-> mine[i].article.url]]

\* formatNewsletter(email, summaries), with date the value of
\* new Date().toDateString() at the call.  The text is a header carrying
\* the date, then per key of byCategory a heading (the key in upper case)
\* and the numbered entries.  It throws when a category is an inherited
\* key (push is not a function) or an article has no source object.
formatNewsletter(email, summaries, date) ==
    IF \/ \E i \in 1..Len(summaries) : summaries[i].category \in InheritedKeys
       \/ \E i \in 1..Len(summaries) : summaries[i].article.source.t = "null"
    THEN [threw |-> TRUE, date |-> date, sections |-> <<>>]
    ELSE LET keys == ObjectKeys(summaries)
         IN  [threw |-> FALSE, date |-> date,
              sections |-> [k \in 1..Len(keys) |->
                  [heading |-> ToUpperCase(keys[k]),
                   items |-> SectionItems(summaries, keys[k])]]]

\* ------------------------------------------------------------------------
\* Delivery (src/src/index.ts:251-325)
\* ------------------------------------------------------------------------
\* sendEmailWithResend for what the delivery backend does (out):
\*   "throw"   : fetch rejects
\*   "notok"   : a non-2xx response
\*   "badjson" : a 2xx response whose body does not parse
\*   "ok"      : a 2xx response with a JSON body
\* Mutant: the key is not looked at before the request.
sendEmailWithResendNoKeyCheck(key, out) ==
    [threw |-> FALSE, ok |-> out = "ok", requested |-> TRUE,
     accepted |-> out \in {"ok", "badjson"},
     errors |-> IF out = "ok" THEN 0 ELSE 1]

\* Mutant: the body is not wrapped in try/catch.
sendEmailWithResendNoCatch(key, out) ==
    IF ~key
    THEN [threw |-> FALSE, ok |-> FALSE, requested |-> FALSE,
          accepted |-> FALSE, errors |-> 0]
    ELSE [threw |-> out \in {"throw", "badjson"}, ok |-> out = "ok",
          requested |-> TRUE, accepted |-> out \in {"ok", "badjson"},
          errors |-> IF out = "notok" THEN 1 ELSE 0]

\* requested: the POST was issued; accepted: the backend answered 2xx;
\* threw: the call ended with an exception instead of a result.  Lines
\* 265-268 return false before any request when the key is not set; the
\* catch block of lines 321-324 turns every exception into false.
sendEmailWithResend(key, out) ==
    IF ~key
    THEN [threw |-> FALSE, ok |-> FALSE, requested |-> FALSE,
          accepted |-> FALSE, errors |-> 0]
    ELSE [threw |-> FALSE, ok |-> out = "ok", requested |-> TRUE,
          accepted |-> out \in {"ok", "badjson"},
          errors |-> IF out = "ok" THEN 0 ELSE 1]

\* ------------------------------------------------------------------------
\* Inputs: stored rows, source responses, model outcomes
\* ------------------------------------------------------------------------
\* Rows of the users table in a run.
MaxSubscribers == 2

sScience == <<"s","c","i","e","n","c","e">>

sHealth == <<"h","e","a","l","t","h">>

sGeneral == <<"g","e","n","e","r","a","l">>

Comma == <<",">>

\* Values of the categories column: two topics, one topic, and a
\* malformed value on which .split cannot be called.
CategoryValues == { Str(sScience \o Comma \o sHealth), Str(sHealth), Null }

\* The address of subscriber i: "u<i>@x.c".
EmailOf(i) == <<"u", Digits[i + 1], "@", "x", ".", "c">>

\* In a log entry: the handler itself, not the call for a subscriber.
Nobody == <<>>

\* The table: row i has the email of subscriber i (emails are unique); any
\* row may be inactive.
Stores ==
    { st \in [1..MaxSubscribers ->
                [email : {EmailOf(i) : i \in 1..MaxSubscribers},
                 categories : CategoryValues, active : BOOLEAN]] :
        \A i \in 1..MaxSubscribers : st[i].email = EmailOf(i) }

ArtGood1 ==
    [title |-> Str(<<"T","1">>), description |-> Str(<<"D","1">>),
     content |-> Str(<<"C","1">>), url |-> Str(<<"u","1">>),
     source |-> Str(<<"B","B","C">>)]

ArtGood2 ==
    [title |-> Str(<<"T","2">>), description |-> Str(<<>>),
     content |-> Str(<<"C","2">>), url |-> Str(<<"u","2">>),
     source |-> Str(<<"C","N","N">>)]

\* An element of data.articles with none of the fields (null, {}).
ArtBare ==
    [title |-> Null, description |-> Null, content |-> Null, url |-> Null,
     source |-> Null]

\* An article without a source object.
ArtNoSource ==
    [title |-> Str(<<"T","3">>), description |-> Str(<<"D","3">>),
     content |-> Null, url |-> Str(<<"u","3">>), source |-> Null]

NoList == [t |-> "missing", v |-> <<>>]

SourceFailures ==
    { [kind |-> "throw", status |-> "null", articles |-> NoList],
      [kind |-> "notok", status |-> "null", articles |-> NoList],
      [kind |-> "badjson", status |-> "null", articles |-> NoList],
      [kind |-> "json", status |-> "null", articles |-> NoList],
      [kind |-> "json", status |-> "error", articles |-> NoList],
      [kind |-> "json", status |-> "ok", articles |-> NoList],
      [kind |-> "json", status |-> "ok",
       articles |-> [t |-> "notarray", v |-> <<>>]] }

OkResponse(list) ==
    [kind |-> "json", status |-> "ok", articles |-> [t |-> "list", v |-> list]]

SourceResponses ==
    SourceFailures \cup
    { OkResponse(<<>>), OkResponse(<<ArtGood1>>),
      OkResponse(<<ArtGood1, ArtGood2>>), OkResponse(<<ArtBare, ArtGood1>>),
      OkResponse(<<ArtNoSource>>) }

AiOutcomes ==
    { [kind |-> "throw", response |-> Null],
      [kind |-> "null", response |-> Null],
      [kind |-> "string", response |-> Str(<<"o","k">>)],
      [kind |-> "object", response |-> Null],
      [kind |-> "object", response |-> Num],
      [kind |-> "object", response |-> Str(<<>>)],
      [kind |-> "object", response |-> Str(<<" "," ">>)],
      [kind |-> "object", response |-> Str(<<" ","o","k","\n">>)] }

\* What the model does in a run of the pipeline: it fails, or it answers.
PipelineAiOutcomes ==
    { [kind |-> "throw", response |-> Null],
      [kind |-> "object", response |-> Str(<<" ","o","k","\n">>)] }

\* A text without "@".
sNoAt == <<"u","1">>

\* formData.get('email'): absent, empty, an address, or another text.
IntakeEmails ==
    { Null, Str(<<>>), Str(EmailOf(1)), Str(EmailOf(2)), Str(sNoAt) }

\* formData.getAll('categories'): no value, one, two, and one value that
\* has a comma in it.
IntakeCategories ==
    { <<>>, <<sHealth>>, <<sScience, sHealth>>,
      <<sScience \o Comma \o sHealth>> }

\* A request whose body request.formData() cannot read.
BadBody == [body |-> "bad", email |-> Null, categories |-> <<>>]

Requests ==
    {BadBody} \cup
    [body : {"form"}, email : IntakeEmails, categories : IntakeCategories]

sRemoved == <<"[","R","e","m","o","v","e","d","]">>

sBBC == <<"B","B","C">>

\* pageSize=5 in the request URL (line 28).
PageSize == 5

\* The i-th article of a page.
ArtN(i) ==
    [title |-> Str(<<"T", Digits[i + 1]>>),
     description |-> Str(<<"D", Digits[i + 1]>>),
     content |-> Str(<<"C", Digits[i + 1]>>),
     url |-> Str(<<"u", Digits[i + 1]>>), source |-> Str(sBBC)]

FullPage == [i \in 1..PageSize |-> ArtN(i)]

\* What the source returns for an article that was taken down.
ArtRemoved ==
    [title |-> Str(sRemoved), description |-> Str(sRemoved),
     content |-> Str(sRemoved), url |-> Str(<<"u","0">>),
     source |-> Str(sRemoved)]

PageResponses ==
    { [kind |-> "notok", status |-> "null", articles |-> NoList],
      OkResponse(FullPage), OkResponse(<<ArtRemoved, ArtN(1)>>) }

PageAiOutcomes == { [kind |-> "object", response |-> Str(<<" ","o","k","\n">>)] }

\* Subscriber 2 changes topic to science; a third address subscribes.
LiveRequests ==
    { [body |-> "form", email |-> Str(EmailOf(2)), categories |-> <<sScience>>],
      [body |-> "form", email |-> Str(EmailOf(3)), categories |-> <<sHealth>>] }

LiveResponses ==
    { [kind |-> "notok", status |-> "null", articles |-> NoList],
      OkResponse(<<ArtGood1>>) }

\* What the source may answer in a behaviour, by the name of the
\* scenario: any response, full pages and removed articles, or one article
\* or a failure.
SourceChoices(name) ==
    CASE name = "pages" -> PageResponses
      [] name = "live" -> LiveResponses
      [] OTHER -> SourceResponses

\* What the model may do in a behaviour.
AiChoices(name) ==
    IF name = "answers" THEN PageAiOutcomes ELSE PipelineAiOutcomes

\* The subscription requests that may arrive in a behaviour.
RequestChoices(name) == IF name = "live" THEN LiveRequests ELSE Requests

SendOutcomes == {"throw", "notok", "badjson", "ok"}

DbOutcomes == {"throw", "noresults", "ok"}

Dates == {"Mon Nov 02 2026", "Tue Nov 03 2026"}

\* ------------------------------------------------------------------------
\* State
\* ------------------------------------------------------------------------
VARIABLES
    store,        \* the users table
    resendKey,    \* env.RESEND_API_KEY is set
    pc,           \* position of the scheduled handler
    dbOutcome,    \* what the load query did ("none" before it)
    results,      \* rows returned by the load query
    u,            \* index in results of the subscriber being processed
    categoryList, \* processUserNewsletter: the parsed topics
    c,            \* fetchNewsForCategories: index of the next topic
    responses,    \* per topic so far: did the request succeed, with what
    allArticles,  \* fetchNewsForCategories: articles aggregated so far
    articles,     \* processUserNewsletter: the articles fetched
    a,            \* index of the next article to summarize
    summaries,    \* processUserNewsletter: the summarized items
    aiCalls,      \* model requests issued for this subscriber
    errors,       \* console.error calls of the fetch, summarize and send
                  \* steps for this subscriber
    newsletter,   \* the composed digest
    called,       \* emails passed to processUserNewsletter, in order
    fetchLog,     \* source requests issued: [email, category]
    aiUsers,      \* emails for which a model request was issued
    sendLog,      \* calls of sendEmailWithResend
    outcomes,     \* how each call of processUserNewsletter ended
    log,          \* console output of scheduled and of the end of each
                  \* processUserNewsletter call: [level, msg, who]; who is
                  \* the subscriber whose call wrote the entry (Nobody:
                  \* the handler itself), kept also where the text names
                  \* nobody
    sPc,          \* summarizer check: "off", "ready" or "returned"
    sArticle,     \* summarizer check: the article
    sAi,          \* summarizer check: what the model does
    sResult,      \* summarizer check: what the call handed back
    sourcePool,   \* what the news source may answer: a name, SourceChoices
    aiPool,       \* what the model may do: a name, AiChoices
    requestPool,  \* the requests that may arrive: a name, RequestChoices
    intake,       \* the last subscription request and its response
    cPc,          \* composer check: "off", "ready", "once" or "twice"
    cItems,       \* composer check: the summarized items
    cOut1,        \* composer check: what the first call returned
    cOut2         \* composer check: what the second call returned

frame == <<categoryList, c, responses, allArticles, articles, a, summaries,
           aiCalls, errors, newsletter>>

history == <<called, fetchLog, aiUsers, sendLog, outcomes, log>>

summ == <<sPc, sArticle, sAi, sResult>>

pools == <<sourcePool, aiPool, requestPool>>

comp == <<cPc, cItems, cOut1, cOut2>>

vars ==
    <<store, resendKey, pc, dbOutcome, results, u, frame, history, summ, pools,
      intake, comp>>

NoNewsletter == [threw |-> FALSE, date |-> "", sections |-> <<>>]

NoResult == Returned(Null, FALSE, 0)

\* The numbers that the text of a console message of scheduled or of the
\* end of processUserNewsletter carries: line 549 prints results.length,
\* the other messages (lines 545, 556, 558, 173, 200, 202, 206) print no
\* count.
Carries(msg) == IF msg = "processing" THEN {"attempted"} ELSE {}

Err(msg, who) == [level |-> "error", msg |-> msg, who |-> who]

Info(msg, who) == [level |-> "info", msg |-> msg, who |-> who]

FrameInit ==
    /\ categoryList = <<>>
    /\ c = 0
    /\ responses = <<>>
    /\ allArticles = <<>>
    /\ articles = <<>>
    /\ a = 0
    /\ summaries = <<>>
    /\ aiCalls = 0
    /\ errors = 0
    /\ newsletter = NoNewsletter

FrameReset ==
    /\ categoryList' = <<>>
    /\ c' = 0
    /\ responses' = <<>>
    /\ allArticles' = <<>>
    /\ articles' = <<>>
    /\ a' = 0
    /\ summaries' = <<>>
    /\ aiCalls' = 0
    /\ errors' = 0
    /\ newsletter' = NoNewsletter

\* No subscription request has been answered.
NoIntake ==
    [status |-> 0, parsed |-> FALSE, email |-> Null, categories |-> <<>>,
     prior |-> "none", wrote |-> FALSE, during |-> FALSE, n |-> 0]

\* The source and the model of a scheduled run, and the requests that
\* the subscription form can send.
PoolsInit ==
    /\ sourcePool = "any"
    /\ aiPool = "any"
    /\ requestPool = "any"

SummIdle ==
    /\ sPc = "off"
    /\ sArticle = ArtBare
    /\ sAi = [kind |-> "null", response |-> Null]
    /\ sResult = NoResult

CompIdle ==
    /\ cPc = "off"
    /\ cItems = <<>>
    /\ cOut1 = NoNewsletter
    /\ cOut2 = NoNewsletter

Init ==
    /\ store \in Stores
    /\ resendKey \in BOOLEAN
    /\ pc = "idle"
    /\ dbOutcome = "none"
    /\ results = <<>>
    /\ u = 0
    /\ FrameInit
    /\ called = <<>>
    /\ fetchLog = <<>>
    /\ aiUsers = {}
    /\ sendLog = <<>>
    /\ outcomes = <<>>
    /\ log = <<>>
    /\ SummIdle
    /\ PoolsInit
    /\ intake = NoIntake
    /\ CompIdle

\* ------------------------------------------------------------------------
\* The scheduled run (src/src/index.ts:537-560, 161-208)
\* ------------------------------------------------------------------------
\* Mutant: the query has no WHERE clause.
SelectAll(st) == st

\* SELECT * FROM users WHERE active = 1
SelectActive(st) == SelectSeq(st, LAMBDA r : r.active)

\* Mutant: a failed query is swallowed and read as an empty result.
LoadSwallowed(db, st) ==
    IF db = "ok"
    THEN [threw |-> FALSE, rows |-> SelectActive(st)]
    ELSE [threw |-> FALSE, rows |-> <<>>]

\* Lines 542-547: the query rejects, or yields no results array, or yields
\* the active rows.
Load(db, st) ==
    IF db = "throw" THEN [threw |-> TRUE, rows |-> <<>>]
    ELSE IF db = "noresults" THEN [threw |-> FALSE, rows |-> <<>>]
    ELSE [threw |-> FALSE, rows |-> SelectActive(st)]

\* Mutant: the record is taken apart and parsed before the try block.
TryCoversAfterParse(site) ==
    site \in {"fetch", "summarize", "compose", "send"}

\* The try block of processUserNewsletter spans lines 162-205: every step
\* of the call is inside it.
TryCovers(site) ==
    site \in {"parse", "fetch", "summarize", "compose", "send"}

\* Mutant: the loop stops at the first subscriber whose send failed.
LoopStopsOnFailure(status) == status # "sendfailed"

\* Lines 552-554: the loop awaits each call and ignores how it ended.
LoopContinues(status) == TRUE

\* Mutant: an empty article list is not checked for.
NeverEmpty(list) == FALSE

\* Line 171: articles.length === 0
NoArticles(list) == Len(list) = 0

\* Line 164: categories.split(',').map(c => c.trim()); .split is there
\* only on a string.
ParseCategories(categories) ==
    IF categories.t # "str"
    THEN [threw |-> TRUE, list |-> <<>>]
    ELSE LET pieces == Split(categories.v, ",")
         IN  [threw |-> FALSE,
              list |-> [i \in 1..Len(pieces) |-> Trim(pieces[i])]]

\* Line 183: article.category || 'general'
CategoryOf(article) ==
    IF article.category # <<>> THEN article.category ELSE sGeneral

\* Mutant: the calls are made for the last record while the loop is at
\* an earlier one.
userLast == results[Len(results)]

\* Mutant: the record of the subscriber is read again from the table when
\* its turn comes.
userReread ==
    IF \E i \in 1..Len(store) : store[i].email = results[u].email
    THEN store[CHOOSE i \in 1..Len(store) : store[i].email = results[u].email]
    ELSE results[u]

\* Line 552: for (const user of results)
user == results[u]

\* Mutant: after each subscriber the loop passes over the next record.
FinishUserSkipping(status, entries) ==
    LET more == u + 1 < Len(results)
    IN  /\ outcomes' = Append(outcomes, status)
        /\ pc' = IF more THEN "user" ELSE "done"
        /\ u' = IF more THEN u + 2 ELSE u
        /\ log' = log \o entries
                    \o (IF more THEN <<>> ELSE <<Info("completed", Nobody)>>)
        /\ FrameReset

\* Mutant: a delivery that returned false is tried again.
FinishUserRetrying(status, entries) ==
    IF status = "sendfailed"
    THEN UNCHANGED <<outcomes, pc, u, log, frame>>
    ELSE LET more == u < Len(results)
         IN  /\ outcomes' = Append(outcomes, status)
             /\ pc' = IF more THEN "user" ELSE "done"
             /\ u' = IF more THEN u + 1 ELSE u
             /\ log' = log \o entries
                         \o (IF more THEN <<>> ELSE <<Info("completed", Nobody)>>)
             /\ FrameReset

\* processUserNewsletter returns (normally, or from its catch block) and
\* the loop of scheduled goes on: the next subscriber, or the end of run.
FinishUser(status, entries) ==
    LET more == LoopContinues(status) /\ u < Len(results)
    IN  /\ outcomes' = Append(outcomes, status)
        /\ pc' = IF more THEN "user" ELSE "done"
        /\ u' = IF more THEN u + 1 ELSE u
        /\ log' = log \o entries
                    \o (IF more THEN <<>> ELSE <<Info("completed", Nobody)>>)
        /\ FrameReset

\* An exception at a step of processUserNewsletter: caught and logged by
\* its catch block when the step is inside the try, otherwise it reaches
\* the catch block of scheduled, which ends the run.
Raise(site) ==
    IF TryCovers(site)
    THEN FinishUser("threw", <<Err("user", user.email)>>)
    ELSE /\ outcomes' = Append(outcomes, "escaped")
         /\ pc' = "done"
         /\ u' = u
         /\ log' = Append(log, Err("cron", Nobody))
         /\ FrameReset

\* scheduled, up to the loop.
ScheduledLoad ==
    /\ pc = "idle"
    /\ \E db \in DbOutcomes :
         LET r == Load(db, store)
         IN  /\ dbOutcome' = db
             /\ results' = r.rows
             /\ IF r.threw
                THEN /\ pc' = "done"
                     /\ u' = 0
                     /\ log' = Append(log, Err("cron", Nobody))
                ELSE IF Len(r.rows) = 0
                THEN /\ pc' = "done"
                     /\ u' = 0
                     /\ log' = Append(log, Info("no-subscribers", Nobody))
                ELSE /\ pc' = "user"
                     /\ u' = 1
                     /\ log' = Append(log, Info("processing", Nobody))
    /\ UNCHANGED <<store, resendKey, frame, called, fetchLog, aiUsers, sendLog,
                   outcomes, summ, pools,
                   intake, comp>>

\* processUserNewsletter, lines 162-166.
ProcessUser ==
    /\ pc = "user"
    /\ called' = Append(called, user.email)
    /\ LET p == ParseCategories(user.categories)
       IN  IF p.threw
           THEN Raise("parse")
           ELSE /\ categoryList' = p.list
                /\ c' = 1
                /\ pc' = "fetch"
                /\ UNCHANGED <<u, outcomes, log, responses, allArticles,
                               articles, a, summaries, aiCalls, errors,
                               newsletter>>
    /\ UNCHANGED <<store, resendKey, dbOutcome, results, fetchLog, aiUsers,
                   sendLog, summ, pools,
                   intake, comp>>

\* fetchNewsForCategories: one turn of the loop over the topics.
FetchCategory ==
    /\ pc = "fetch"
    /\ c <= Len(categoryList)
    /\ \E resp \in SourceChoices(sourcePool) :
         LET r == fetchCategory(categoryList[c], resp)
         IN  /\ fetchLog' = Append(fetchLog,
                    [email |-> user.email, category |-> categoryList[c]])
             /\ IF r.threw
                THEN Raise("fetch")
                ELSE /\ responses' = Append(responses,
                            [ok |-> r.errors = 0, articles |-> r.articles])
                     /\ allArticles' = allArticles \o r.articles
                     /\ c' = c + 1
                     /\ errors' = errors + r.errors
                     /\ UNCHANGED <<pc, u, outcomes, log, categoryList,
                                    articles, a, summaries, aiCalls, newsletter>>
    /\ UNCHANGED <<store, resendKey, dbOutcome, results, called, aiUsers,
                   sendLog, summ, pools,
                   intake, comp>>

\* fetchNewsForCategories returns (line 54); lines 171-174.
FetchReturn ==
    /\ pc = "fetch"
    /\ c > Len(categoryList)
    /\ LET got == Slice(allArticles, ArticleCap)
       IN  IF NoArticles(got)
           THEN FinishUser("noarticles", <<Info("no-articles", user.email)>>)
           ELSE /\ articles' = got
                /\ a' = 1
                /\ pc' = "summarize"
                /\ UNCHANGED <<u, outcomes, log, categoryList, c, responses,
                               allArticles, summaries, aiCalls, errors,
                               newsletter>>
    /\ UNCHANGED <<store, resendKey, dbOutcome, results, called, fetchLog,
                   aiUsers, sendLog, summ, pools,
                   intake, comp>>

\* Lines 178-185: one turn of the loop over the articles.
Summarize ==
    /\ pc = "summarize"
    /\ a <= Len(articles)
    /\ \E ai \in AiChoices(aiPool) :
         LET r == summarizeArticleWithLlama(articles[a], ai)
         IN  /\ aiUsers' = IF r.aiCalled THEN aiUsers \cup {user.email}
                           ELSE aiUsers
             /\ IF r.threw
                THEN Raise("summarize")
                ELSE /\ summaries' = Append(summaries,
                            [article |-> articles[a], summary |-> r.value,
                             category |-> CategoryOf(articles[a])])
                     /\ a' = a + 1
                     /\ aiCalls' = aiCalls + (IF r.aiCalled THEN 1 ELSE 0)
                     /\ errors' = errors + r.errors
                     /\ UNCHANGED <<pc, u, outcomes, log, categoryList, c,
                                    responses, allArticles, articles,
                                    newsletter>>
    /\ UNCHANGED <<store, resendKey, dbOutcome, results, called, fetchLog,
                   sendLog, summ, pools,
                   intake, comp>>

\* Line 188: formatNewsletter.
Compose ==
    /\ pc = "summarize"
    /\ a > Len(articles)
    /\ \E date \in Dates :
         LET n == formatNewsletter(user.email, summaries, date)
         IN  IF n.threw
             THEN Raise("compose")
             ELSE /\ newsletter' = n
                  /\ pc' = "send"
                  /\ UNCHANGED <<u, outcomes, log, categoryList, c, responses,
                                 allArticles, articles, a, summaries, aiCalls,
                                 errors>>
    /\ UNCHANGED <<store, resendKey, dbOutcome, results, called, fetchLog,
                   aiUsers, sendLog, summ, pools,
                   intake, comp>>

\* Mutant: a subscriber whose delivery failed is deactivated in the table.
SendDeactivating ==
    /\ pc = "send"
    /\ \E out \in SendOutcomes :
         LET r == sendEmailWithResend(resendKey, out)
         IN  /\ sendLog' = Append(sendLog,
                    [email |-> user.email, requested |-> r.requested,
                     backend |-> IF r.requested THEN out ELSE "none",
                     accepted |-> r.accepted, threw |-> r.threw,
                     ok |-> r.ok])
             /\ store' = IF r.ok THEN store
                         ELSE [i \in 1..Len(store) |->
                                 IF store[i].email = user.email
                                 THEN [store[i] EXCEPT !.active = FALSE]
                                 ELSE store[i]]
             /\ IF r.ok
                THEN FinishUser("sent", <<Info("sent", user.email)>>)
                ELSE FinishUser("sendfailed",
                                <<Info("send-failed", user.email)>>)
    /\ UNCHANGED <<resendKey, dbOutcome, results, called, fetchLog, aiUsers,
                   summ, pools, intake, comp>>

\* Lines 191-203: sendEmailWithResend and the log of its result.
Send ==
    /\ pc = "send"
    /\ \E out \in SendOutcomes :
         LET r == sendEmailWithResend(resendKey, out)
         IN  /\ sendLog' = Append(sendLog,
                    [email |-> user.email, requested |-> r.requested,
                     backend |-> IF r.requested THEN out ELSE "none",
                     accepted |-> r.accepted, threw |-> r.threw,
                     ok |-> r.ok])
             /\ IF r.threw
                THEN Raise("send")
                ELSE IF r.ok
                THEN FinishUser("sent", <<Info("sent", user.email)>>)
                ELSE FinishUser("sendfailed",
                                <<Info("send-failed", user.email)>>)
    /\ UNCHANGED <<store, resendKey, dbOutcome, results, called, fetchLog,
                   aiUsers, summ, pools,
                   intake, comp>>

Next ==
    \/ ScheduledLoad
    \/ ProcessUser
    \/ FetchCategory
    \/ FetchReturn
    \/ Summarize
    \/ Compose
    \/ Send

Spec == Init /\ [][Next]_vars

\* Every awaited call (the query, a source request, a model request, the
\* delivery request) returns or throws in the end: a run that can take a
\* step takes one.
SpecFair == Spec /\ WF_vars(Next)

\* ------------------------------------------------------------------------
\* The summarizer on its own: one call on any article of SummArticles with
\* any model outcome of AiOutcomes
\* ------------------------------------------------------------------------
\* Shortest first sentence of the body that the documented fallback rule
\* accepts is longer than this.
SentenceMin == 20

\* A body whose first sentence is long enough for the documented rule.
sBody == Rep(SentenceMin + 1, "x") \o <<".", " ", "y">>

SummTitles == { Null, Str(<<>>), Str(<<"T","1">>) }

SummDescriptions ==
    { Null, Str(<<>>), Str(<<"D","1">>), Str(sRemoved),
      Str(Rep(SummaryLimit, "d")), Str(Rep(SummaryLimit + 1, "d")) }

SummArticles ==
    [title : SummTitles, description : SummDescriptions,
     content : {Null, Str(sBody)}, url : {Str(<<"u","1">>)},
     source : {Str(sBBC)}]

IdleStore ==
    [i \in 1..MaxSubscribers |->
        [email |-> EmailOf(i), categories |-> Str(sHealth), active |-> FALSE]]

SummInit ==
    /\ store = IdleStore
    /\ resendKey = FALSE
    /\ pc = "off"
    /\ dbOutcome = "none"
    /\ results = <<>>
    /\ u = 0
    /\ FrameInit
    /\ called = <<>>
    /\ fetchLog = <<>>
    /\ aiUsers = {}
    /\ sendLog = <<>>
    /\ outcomes = <<>>
    /\ log = <<>>
    /\ sPc = "ready"
    /\ sArticle \in SummArticles
    /\ sAi \in AiOutcomes
    /\ sResult = NoResult
    /\ PoolsInit
    /\ intake = NoIntake
    /\ CompIdle

\* summarizeArticleWithLlama(sArticle, env.AI) runs to its end.
SummarizeCall ==
    /\ sPc = "ready"
    /\ sResult' = summarizeArticleWithLlama(sArticle, sAi)
    /\ sPc' = "returned"
    /\ UNCHANGED <<store, resendKey, pc, dbOutcome, results, u, frame, history,
                   sArticle, sAi, pools, intake, comp>>

SummNext == SummarizeCall

SpecSumm == SummInit /\ [][SummNext]_vars

\* ------------------------------------------------------------------------
\* A run for one subscriber of three topics, with a source that returns
\* full pages and removed articles
\* ------------------------------------------------------------------------
\* Subscriber 1 is active with three topics, the others are inactive.
PageStore ==
    [i \in 1..MaxSubscribers |->
        IF i = 1
        THEN [email |-> EmailOf(1),
              categories |-> Str(sScience \o Comma \o sHealth \o Comma
                                   \o sGeneral),
              active |-> TRUE]
        ELSE IdleStore[i]]

\* Subscriber 1 is active with the stored text "health,": the topic
\* list has an empty entry.
BlankTopicStore ==
    [i \in 1..MaxSubscribers |->
        IF i = 1
        THEN [email |-> EmailOf(1), categories |-> Str(sHealth \o Comma),
              active |-> TRUE]
        ELSE IdleStore[i]]

PagesInit ==
    /\ store \in {PageStore, BlankTopicStore}
    /\ resendKey \in BOOLEAN
    /\ pc = "idle"
    /\ dbOutcome = "none"
    /\ results = <<>>
    /\ u = 0
    /\ FrameInit
    /\ called = <<>>
    /\ fetchLog = <<>>
    /\ aiUsers = {}
    /\ sendLog = <<>>
    /\ outcomes = <<>>
    /\ log = <<>>
    /\ SummIdle
    /\ sourcePool = "pages"
    /\ aiPool = "answers"
    /\ requestPool = "any"
    /\ intake = NoIntake
    /\ CompIdle

SpecPages == PagesInit /\ [][Next]_vars

\* ------------------------------------------------------------------------
\* The composer on its own: formatNewsletter is called twice on the same
\* recipient and the same summarized items
\* ------------------------------------------------------------------------
\* Longest sequence of summarized items composed.
MaxItems == 3

\* No scheduled run and no summarizer call is under way.
PipelineOff ==
    /\ store = IdleStore
    /\ resendKey = FALSE
    /\ pc = "off"
    /\ dbOutcome = "none"
    /\ results = <<>>
    /\ u = 0
    /\ FrameInit
    /\ called = <<>>
    /\ fetchLog = <<>>
    /\ aiUsers = {}
    /\ sendLog = <<>>
    /\ outcomes = <<>>
    /\ log = <<>>
    /\ SummIdle
    /\ PoolsInit

\* Categories of the items: two words and two numerals.
ComposeTopics == { sHealth, sScience, <<"2">>, <<"1","0">> }

\* Elements of the summaries array (lines 180-184).
ComposeItems ==
    [article : {ArtGood1, ArtGood2}, summary : {Str(<<"o","k">>)},
     category : ComposeTopics]

\* The array is never empty at the call (lines 171-174 return before).
ComposeInputs == UNION { [1..n -> ComposeItems] : n \in 1..MaxItems }

ComposeInit ==
    /\ PipelineOff
    /\ intake = NoIntake
    /\ cPc = "ready"
    /\ cItems \in ComposeInputs
    /\ cOut1 = NoNewsletter
    /\ cOut2 = NoNewsletter

\* formatNewsletter(email, cItems) is called; the clock reads some date.
ComposeFirst ==
    /\ cPc = "ready"
    /\ \E date \in Dates : cOut1' = formatNewsletter(EmailOf(1), cItems, date)
    /\ cPc' = "once"
    /\ UNCHANGED <<store, resendKey, pc, dbOutcome, results, u, frame, history,
                   summ, pools, intake, cItems, cOut2>>

\* The same call again, at that time or later.
ComposeSecond ==
    /\ cPc = "once"
    /\ \E date \in Dates : cOut2' = formatNewsletter(EmailOf(1), cItems, date)
    /\ cPc' = "twice"
    /\ UNCHANGED <<store, resendKey, pc, dbOutcome, results, u, frame, history,
                   summ, pools, intake, cItems, cOut1>>

ComposeNext ==
    \/ ComposeFirst
    \/ ComposeSecond

SpecCompose == ComposeInit /\ [][ComposeNext]_vars

\* ------------------------------------------------------------------------
\* Subscription intake (src/src/index.ts:104-156) and the load of the next
\* scheduled run
\* ------------------------------------------------------------------------
\* Subscription requests answered in a behaviour.
MaxRequests == 2

\* What the statement does: it runs, or env.DB rejects.
WriteOutcomes == {"ok", "throw"}

Row(email, categories, active) ==
    [email |-> email, categories |-> Str(categories), active |-> active]

\* Mutant: ON CONFLICT(email) DO UPDATE SET categories = ? (the column
\* active is left as it is).
UpsertKeepsActive(st, email, categories) ==
    IF \E i \in 1..Len(st) : st[i].email = email
    THEN [i \in 1..Len(st) |->
            IF st[i].email = email
            THEN Row(email, categories, st[i].active) ELSE st[i]]
    ELSE Append(st, Row(email, categories, TRUE))

\* Lines 117-119: INSERT INTO users (email, categories) VALUES (?, ?)
\* ON CONFLICT(email) DO UPDATE SET categories = ?, active = 1.  email is
\* UNIQUE and active defaults to 1 (lines 796-802).
Upsert(st, email, categories) ==
    IF \E i \in 1..Len(st) : st[i].email = email
    THEN [i \in 1..Len(st) |->
            IF st[i].email = email THEN Row(email, categories, TRUE) ELSE st[i]]
    ELSE Append(st, Row(email, categories, TRUE))

\* handleSubscribe: the status of the response and the table afterwards.
handleSubscribe(req, db, st) ==
    IF req.body = "bad"
    THEN \* line 105 throws; lines 152-155
         [status |-> 500, store |-> st, wrote |-> FALSE]
    ELSE IF ~Truthy(req.email) \/ Len(req.categories) = 0
    THEN \* lines 109-111
         [status |-> 400, store |-> st, wrote |-> FALSE]
    ELSE IF db = "throw"
    THEN \* lines 148-151
         [status |-> 500, store |-> st, wrote |-> FALSE]
    ELSE \* lines 114-147: a Response without status is a 200
         [status |-> 200,
          store |-> Upsert(st, req.email.v, Join(req.categories, Comma)),
          wrote |-> TRUE]

\* The table before the requests: empty, or one subscriber who is
\* deactivated, or active.
IntakeStores ==
    { <<>>, <<Row(EmailOf(1), sHealth, FALSE)>>,
      <<Row(EmailOf(1), sHealth, TRUE)>> }

\* The state of the row of an email in the table.
PriorOf(st, email) ==
    IF email.t # "str" \/ ~\E i \in 1..Len(st) : st[i].email = email.v
    THEN "none"
    ELSE IF \E i \in 1..Len(st) : st[i].email = email.v /\ st[i].active
    THEN "active"
    ELSE "inactive"

IntakeInit ==
    /\ store \in IntakeStores
    /\ resendKey = FALSE
    /\ pc = "idle"
    /\ dbOutcome = "none"
    /\ results = <<>>
    /\ u = 0
    /\ FrameInit
    /\ called = <<>>
    /\ fetchLog = <<>>
    /\ aiUsers = {}
    /\ sendLog = <<>>
    /\ outcomes = <<>>
    /\ log = <<>>
    /\ SummIdle
    /\ PoolsInit
    /\ intake = NoIntake
    /\ CompIdle

\* POST /api/subscribe (lines 512-514): one request is answered.
HandleSubscribe ==
    /\ intake.n < MaxRequests
    /\ \E req \in RequestChoices(requestPool), db \in WriteOutcomes :
         LET r == handleSubscribe(req, db, store)
         IN  /\ store' = r.store
             /\ intake' = [status |-> r.status, parsed |-> req.body = "form",
                           email |-> req.email, categories |-> req.categories,
                           prior |-> PriorOf(store, req.email),
                           wrote |-> r.wrote, during |-> pc # "idle",
                           n |-> intake.n + 1]
    /\ UNCHANGED <<resendKey, pc, dbOutcome, results, u, frame, history, summ,
                   pools, comp>>

IntakeNext ==
    \/ HandleSubscribe
    \/ ScheduledLoad

SpecIntake == IntakeInit /\ [][IntakeNext]_vars

\* ------------------------------------------------------------------------
\* A scheduled run during which subscription requests arrive
\* ------------------------------------------------------------------------
\* Two active subscribers of topic health.
LiveStore ==
    <<Row(EmailOf(1), sHealth, TRUE), Row(EmailOf(2), sHealth, TRUE)>>

LiveInit ==
    /\ store = LiveStore
    /\ resendKey = TRUE
    /\ pc = "idle"
    /\ dbOutcome = "none"
    /\ results = <<>>
    /\ u = 0
    /\ FrameInit
    /\ called = <<>>
    /\ fetchLog = <<>>
    /\ aiUsers = {}
    /\ sendLog = <<>>
    /\ outcomes = <<>>
    /\ log = <<>>
    /\ SummIdle
    /\ sourcePool = "live"
    /\ aiPool = "answers"
    /\ requestPool = "live"
    /\ intake = NoIntake
    /\ CompIdle

\* The two handlers of the worker (lines 503-560): a step of the scheduled
\* run, or a subscription request answered.
LiveNext ==
    \/ Next
    \/ HandleSubscribe

SpecLive == LiveInit /\ [][LiveNext]_vars

\* ------------------------------------------------------------------------
\* Properties
\* ------------------------------------------------------------------------
Emails(list) == { list[i].email : i \in 1..Len(list) }

\* Number of entries of a log that are about email e.
CountFor(entries, e) ==
    Cardinality({ i \in 1..Len(entries) : entries[i].email = e })

\* The call of processUserNewsletter for results[k] has ended and the loop
\* has gone on to results[k + 1].
WentOn(k) ==
    \/ Len(called) > k
    \/ pc = "user" /\ u = k + 1

\* C1: no subscriber whose active flag is false in the store is passed to
\* processUserNewsletter in a run, and no article fetch, model call or
\* delivery call is made for such a subscriber.
InactiveNeverProcessed ==
    \A i \in 1..Len(store) :
        ~store[i].active =>
            /\ \A k \in 1..Len(results) : results[k].email # store[i].email
            /\ \A k \in 1..Len(called) : called[k] # store[i].email
            /\ CountFor(fetchLog, store[i].email) = 0
            /\ store[i].email \notin aiUsers
            /\ CountFor(sendLog, store[i].email) = 0

\* C1 witness: a run over a table with an inactive row has ended after
\* delivering to another subscriber.
InactiveSkippedWitness ==
    /\ pc = "done"
    /\ \E i \in 1..Len(store) : ~store[i].active
    /\ \E k \in 1..Len(sendLog) : sendLog[k].ok

\* C2: an exception raised while one subscriber is processed (parsing the
\* stored topics, fetch, summarize, compose, deliver) ends that call of
\* processUserNewsletter normally: it never reaches the catch block of
\* scheduled, and the loop goes on to the next subscriber.
ExceptionsStayInCall ==
    /\ \A k \in 1..Len(outcomes) : outcomes[k] # "escaped"
    /\ dbOutcome # "throw" =>
          \A k \in 1..Len(log) : log[k] # Err("cron", Nobody)
    /\ \A k \in 1..Len(outcomes) :
          (outcomes[k] = "threw" /\ k < Len(results)) => WentOn(k)

\* C2 witness: the first subscriber's stored topics are malformed, its call
\* ended in the catch block, and the second subscriber was processed.
MalformedThenNextWitness ==
    /\ Len(results) >= 2
    /\ results[1].categories = Null
    /\ Len(outcomes) >= 2
    /\ outcomes[1] = "threw"
    /\ Len(called) >= 2

\* C3: when sendEmailWithResend returned false for the N-th subscriber of a
\* run and an (N+1)-th exists, the (N+1)-th is processed in the same run.
DeliveryFailureDoesNotStopRun ==
    \A k \in 1..Len(outcomes) :
        (outcomes[k] = "sendfailed" /\ k < Len(results)) =>
            /\ WentOn(k)
            /\ pc = "done" => Len(called) = Len(results)

\* C3 witness: the first delivery failed after a request to the backend and
\* the second subscriber was then processed.
FailedSendThenNextWitness ==
    /\ Len(sendLog) >= 1
    /\ sendLog[1].email = results[1].email
    /\ sendLog[1].requested
    /\ ~sendLog[1].ok
    /\ Len(called) >= 2
    /\ called[2] = results[2].email

\* C4: when the load query fails, the run ends at once: no subscriber is
\* processed, no fetch, model call or delivery call is made, and the
\* failure is logged as an error.
LoadFailureAborts ==
    dbOutcome = "throw" =>
        /\ pc = "done"
        /\ called = <<>>
        /\ fetchLog = <<>>
        /\ aiUsers = {}
        /\ sendLog = <<>>
        /\ log = <<Err("cron", Nobody)>>

\* C4 witness: the query failed on a table that holds active subscribers.
LoadFailureWitness ==
    /\ dbOutcome = "throw"
    /\ \A i \in 1..Len(store) : store[i].active /\ store[i].categories # Null

IsNonEmptyString(x) == x.t = "str" /\ x.v # <<>>

\* C5: what summarizeArticleWithLlama returns is a non-empty string, for any
\* behaviour of the model call and any article; stated here for the
\* articles that have at least a title, the case the claim singles out.
SummaryNeverEmpty ==
    (sPc = "returned" /\ ~sResult.threw /\ IsNonEmptyString(sArticle.title))
        => IsNonEmptyString(sResult.value)

\* C6: summarizeArticleWithLlama returns a string and surfaces no exception
\* to its caller, for any article and any model failure.
SummarizerNeverThrows ==
    sPc = "returned" => (~sResult.threw /\ sResult.value.t = "str")

IsPrefix(p, s) == Len(p) <= Len(s) /\ SubSeq(s, 1, Len(p)) = p

Contains(sub, s) ==
    \E i \in 1..(Len(s) + 1) :
        i + Len(sub) - 1 <= Len(s) /\ SubSeq(s, i, i + Len(sub) - 1) = sub

\* The text of a body up to its first '.', '!' or '?', trimmed.
FirstSentence(body) ==
    LET ends == { i \in 1..Len(body) : body[i] \in {".", "!", "?"} }
    IN  IF ends = {} THEN Trim(body)
        ELSE Trim(SubSeq(body, 1,
                 (CHOOSE i \in ends : \A j \in ends : i <= j) - 1))

\* The text the documented fallback rule chooses: the description when it
\* is non-empty and not the sentinel, else the first sentence of the body
\* when longer than 20 characters, else the title.
DocumentedFallbackText(article) ==
    IF IsNonEmptyString(article.description) /\ article.description.v # sRemoved
    THEN article.description.v
    ELSE IF /\ article.content.t = "str"
            /\ Len(FirstSentence(article.content.v)) > SentenceMin
    THEN FirstSentence(article.content.v)
    ELSE article.title.v

UnusableModelResult(ai) ==
    \/ ai.kind \in {"null", "string"}
    \/ /\ ai.kind = "object"
       /\ \/ ai.response.t # "str"
          \/ Trim(ai.response.v) = <<>>

\* C8: when the model call returns an empty or unparseable result,
\* summarizeArticleWithLlama hands back what createFallbackSummary gives
\* for the article.
UnusableResultFallsBack ==
    (sPc = "returned" /\ sResult.aiCalled /\ UnusableModelResult(sAi)) =>
        LET fb == createFallbackSummary(sArticle)
        IN  /\ sResult.threw = fb.threw
            /\ sResult.value = fb.value

\* C9: a subscriber for whom the fetch step returns no article is skipped:
\* the summarize and send steps are never entered with an empty article
\* list, such a call ends without a model call, a delivery call or an
\* error entry, and the loop goes on to the next subscriber.
ZeroArticlesSkipsSubscriber ==
    /\ pc \in {"summarize", "send"} => articles # <<>>
    /\ \A k \in 1..Len(outcomes) :
          outcomes[k] = "noarticles" =>
              /\ results[k].email \notin aiUsers
              /\ CountFor(sendLog, results[k].email) = 0
              /\ \A j \in 1..Len(log) :
                    ~(log[j].level = "error" /\ log[j].who = results[k].email)
              /\ k < Len(results) => WentOn(k)

\* C9 witness: the first subscriber had no article, the second got a
\* delivery call.
ZeroArticlesWitness ==
    /\ Len(outcomes) >= 2
    /\ outcomes[1] = "noarticles"
    /\ CountFor(sendLog, results[2].email) = 1

RECURSIVE Flatten(_)
Flatten(lists) ==
    IF lists = <<>> THEN <<>> ELSE Head(lists) \o Flatten(Tail(lists))

\* The articles the source returned for the current subscriber's topics
\* whose request succeeded, each tagged with its topic, in topic order.
ReturnedArticles ==
    Flatten([i \in 1..Len(responses) |->
                IF responses[i].ok THEN responses[i].articles ELSE <<>>])

FailedTopics == { i \in 1..Len(responses) : ~responses[i].ok }

\* C10: in fetchNewsForCategories a failed topic is skipped and nothing
\* else: a request is issued for every topic of every subscriber whose
\* topics parse, whatever the earlier requests did; each failure is logged;
\* the articles of the topics that succeeded are what the function returns
\* (up to the cap); and the digest has sections only for such topics.
FailedTopicSkippedOnly ==
    /\ \A k \in 1..Len(outcomes) :
          results[k].categories.t = "str" =>
              CountFor(fetchLog, results[k].email)
                 = Len(ParseCategories(results[k].categories).list)
    /\ pc = "fetch" =>
          /\ Len(responses) = c - 1
          /\ allArticles = ReturnedArticles
          /\ errors = Cardinality(FailedTopics)
    /\ pc \in {"summarize", "send"} =>
          /\ Len(responses) = Len(categoryList)
          /\ articles = Slice(ReturnedArticles, ArticleCap)
          /\ \A i \in 1..Len(articles) :
                \E t \in 1..Len(categoryList) :
                    responses[t].ok /\ articles[i].category = categoryList[t]
    /\ pc = "send" =>
          \A n \in 1..Len(newsletter.sections) :
              \E t \in 1..Len(categoryList) :
                  /\ responses[t].ok
                  /\ responses[t].articles # <<>>
                  /\ newsletter.sections[n].heading = ToUpperCase(categoryList[t])

\* C10 witness: topics science and health, the science request failed, the
\* health request returned articles, and the digest composed has the one
\* section HEALTH.
HealthOnlyWitness ==
    /\ pc = "send"
    /\ categoryList = <<sScience, sHealth>>
    /\ ~responses[1].ok
    /\ responses[2].ok
    /\ Len(newsletter.sections) = 1
    /\ newsletter.sections[1].heading = <<"H","E","A","L","T","H">>
    /\ Len(newsletter.sections[1].items) = 2

\* A field without usable text: absent, empty, or the "[Removed]" mark.
Unusable(x) == x.t # "str" \/ x.v = <<>> \/ x.v = sRemoved

\* An article with neither a usable body nor a usable description.
Contentless(article) ==
    Unusable(article.content) /\ Unusable(article.description)

\* C11: an article whose content and description are empty or "[Removed]"
\* is dropped by the fetch step: none is among the articles handed to the
\* summarizer, and none is among the summarized items the digest is made
\* of.
NoContentlessArticleDownstream ==
    /\ \A i \in 1..Len(articles) : ~Contentless(articles[i])
    /\ \A i \in 1..Len(summaries) : ~Contentless(summaries[i].article)

\* Number of items of a digest, all sections together.
DigestSize(n) ==
    Len(Flatten([k \in 1..Len(n.sections) |-> n.sections[k].items]))

\* C12: for every subscriber of a run at most ArticleCap (10) articles come
\* out of the fetch step, so at most 10 summarizer calls (and model
\* requests) are made for the subscriber and the digest has at most 10
\* items, however many articles the topics returned together.
AtMostTenDownstream ==
    /\ Len(articles) <= ArticleCap
    /\ a <= ArticleCap + 1
    /\ Len(summaries) <= ArticleCap
    /\ aiCalls <= ArticleCap
    /\ DigestSize(newsletter) <= ArticleCap

\* C12 witness: three topics returned a full page each, fifteen articles,
\* of which ten were summarized and composed into the digest.
CapCutsWitness ==
    /\ pc = "send"
    /\ Len(allArticles) = 3 * PageSize
    /\ Len(allArticles) > ArticleCap
    /\ Len(articles) = ArticleCap
    /\ aiCalls = ArticleCap
    /\ DigestSize(newsletter) = ArticleCap

\* The fetch of the subscriber being processed yielded articles of one
\* topic only.
OneTopicFetched ==
    /\ pc \in {"summarize", "send"}
    /\ \A i \in 1..Len(articles) : articles[i].category = articles[1].category

\* C13: when the fetch for a subscriber yields n >= 1 articles, all of one
\* topic, the summarizer is invoked once per article in fetch order, the
\* digest has exactly one section, headed by the topic in upper case, with
\* the n items in fetch order, and delivery is called exactly once, after
\* the n summaries.
OneTopicOneSectionOneDelivery ==
    /\ OneTopicFetched =>
          /\ Len(summaries) = (IF pc = "send" THEN Len(articles) ELSE a - 1)
          /\ \A i \in 1..Len(summaries) : summaries[i].article = articles[i]
          /\ CountFor(sendLog, user.email) = 0
    /\ (OneTopicFetched /\ pc = "send") =>
          /\ Len(newsletter.sections) = 1
          /\ newsletter.sections[1].heading = ToUpperCase(articles[1].category)
          /\ Len(newsletter.sections[1].items) = Len(articles)
          /\ \A i \in 1..Len(articles) :
                /\ newsletter.sections[1].items[i].n = i
                /\ newsletter.sections[1].items[i].url = articles[i].url
    /\ \A k \in 1..Len(outcomes) :
          (results[k].categories = Str(sHealth) /\ outcomes[k] # "noarticles")
              => CountFor(sendLog, results[k].email) = 1

\* The items of a topic, in arrival order.
ArrivedFor(items, topic) == SelectSeq(items, LAMBDA it : it.category = topic)

\* C14: formatNewsletter puts the items into sections that follow the
\* first-seen order of the topics, whatever the topic strings; inside a
\* section the items are in arrival order and numbered 1..k; every input
\* item is in exactly one section, once.
SectionsInFirstSeenOrder ==
    cPc \in {"once", "twice"} =>
        LET topics == FirstSeen(cItems, <<>>)
        IN  /\ ~cOut1.threw
            /\ Len(cOut1.sections) = Len(topics)
            /\ DigestSize(cOut1) = Len(cItems)
            /\ \A k \in 1..Len(cOut1.sections) :
                  LET sec == cOut1.sections[k]
                      mine == ArrivedFor(cItems, topics[k])
                  IN  /\ sec.heading = ToUpperCase(topics[k])
                      /\ Len(sec.items) = Len(mine)
                      /\ \A i \in 1..Len(sec.items) :
                            /\ sec.items[i].n = i
                            /\ sec.items[i].title = mine[i].article.title
                            /\ sec.items[i].url = mine[i].article.url
                            /\ sec.items[i].summary = mine[i].summary

\* C15: two calls of formatNewsletter with the same recipient and the same
\* items return the same text, whenever they are made.
ComposeRepeatable == cPc = "twice" => cOut1 = cOut2

\* C16: when RESEND_API_KEY is not set, every call of sendEmailWithResend
\* returns false without a request to the delivery backend.
MissingKeyNoRequest ==
    ~resendKey =>
        \A k \in 1..Len(sendLog) :
            /\ ~sendLog[k].requested
            /\ sendLog[k].backend = "none"
            /\ ~sendLog[k].threw
            /\ ~sendLog[k].ok

\* C16 witness: without the key a digest was composed, sendEmailWithResend
\* was called for it and the call for the subscriber ended as not sent.
MissingKeyWitness ==
    /\ ~resendKey
    /\ Len(sendLog) >= 1
    /\ ~sendLog[1].requested
    /\ Len(outcomes) >= 1
    /\ \E k \in 1..Len(outcomes) :
          outcomes[k] = "sendfailed" /\ results[k].email = sendLog[1].email

\* C17: sendEmailWithResend never ends with an exception; a non-2xx
\* response of the backend gives false, and so does a request that rejects
\* or a response body that does not parse.
DeliveryNeverThrows ==
    \A k \in 1..Len(sendLog) :
        /\ ~sendLog[k].threw
        /\ sendLog[k].backend = "notok" => ~sendLog[k].ok
        /\ sendLog[k].backend \in {"throw", "badjson"} => ~sendLog[k].ok

\* C17 witness: one call met a non-2xx response and another a rejected
\* request; both returned false and both subscribers' calls ended normally.
DeliveryFailuresWitness ==
    /\ Len(sendLog) = 2
    /\ sendLog[1].backend = "notok"
    /\ sendLog[2].backend = "throw"
    /\ ~sendLog[1].ok
    /\ ~sendLog[2].ok
    /\ outcomes = <<"sendfailed", "sendfailed">>

\* The row that a successful request for the email and categories of the
\* last request leaves in the table.
SubscribedRow == Row(intake.email.v, Join(intake.categories, Comma), TRUE)

\* C18: the table never holds two records of one email; after a successful
\* subscription request, also one for an email that has a record already,
\* active or not, the record of the email carries the submitted topics and
\* is active; a run that loads the table after the request gets the
\* record.
OneRecordPerEmailReactivated ==
    /\ \A i, j \in 1..Len(store) : store[i].email = store[j].email => i = j
    /\ intake.status = 200 =>
          \E i \in 1..Len(store) : store[i] = SubscribedRow
    /\ (intake.status = 200 /\ ~intake.during /\ dbOutcome = "ok") =>
          \E k \in 1..Len(results) : results[k] = SubscribedRow

\* C18 witness: the deactivated subscriber of topic health subscribed again
\* with science and health, and the run that followed loaded the record
\* with the new topics.
ResubscribedWitness ==
    /\ intake.status = 200
    /\ intake.prior = "inactive"
    /\ intake.email = Str(EmailOf(1))
    /\ intake.categories = <<sScience, sHealth>>
    /\ ~intake.during
    /\ Len(store) = 1
    /\ pc = "user"
    /\ dbOutcome = "ok"
    /\ results = <<Row(EmailOf(1), sScience \o Comma \o sHealth, TRUE)>>

\* The shape ^[^\s@]+@[^\s@]+\.[^\s@]+$ : no white space, one "@" that is
\* not the first character, and after it a "." with a character on either
\* side.
EmailShaped(s) ==
    /\ \A i \in 1..Len(s) : ~IsSpace(s[i])
    /\ \E i \in 2..Len(s) :
          /\ s[i] = "@"
          /\ \A j \in 1..Len(s) : s[j] = "@" => j = i
          /\ \E j \in (i + 2)..(Len(s) - 1) : s[j] = "."

\* The email of a request is missing or is not shaped like an address.
BadEmail(email) == ~Truthy(email) \/ ~EmailShaped(email.v)

\* C19: a subscription request with a missing or ill-shaped email, or with
\* no category, is answered 400 and writes nothing; a failure of the store
\* is answered 500 and writes nothing; every status is 200, 400 or 500.
IntakeValidates ==
    intake.status # 0 =>
        /\ intake.status \in {200, 400, 500}
        /\ (intake.parsed /\ (BadEmail(intake.email) \/ intake.categories = <<>>))
              => (intake.status = 400 /\ ~intake.wrote)
        /\ intake.status = 500 => ~intake.wrote

\* C20: the articles that fetchNewsForCategories returns for a subscriber
\* never hold the same article, as told by its url, twice.
NoDuplicateUrls ==
    pc \in {"summarize", "send"} =>
        \A i, j \in 1..Len(articles) :
            (articles[i].url.t = "str" /\ articles[i].url = articles[j].url)
                => i = j

IndexOf(e) == CHOOSE k \in 1..Len(results) : results[k].email = e

\* The topics of the source requests issued for an email, in order.
RequestedTopics(e) ==
    LET mine == SelectSeq(fetchLog, LAMBDA r : r.email = e)
    IN  [i \in 1..Len(mine) |-> mine[i].category]

\* C22: a run has one thread of control: while a subscriber is processed
\* the calls of all earlier subscribers have ended and no call for a later
\* subscriber has been made, so the source and delivery requests follow the
\* order of the loaded records; the source requests of a subscriber are
\* issued one at a time in the order of its topic list, and its delivery
\* comes after all of them.
OneSubscriberAtATime ==
    /\ pc \in {"fetch", "summarize", "send"} =>
          /\ Len(called) = u
          /\ Len(outcomes) = u - 1
    /\ \A i \in 1..Len(called) : called[i] = results[i].email
    /\ \A i \in 1..Len(fetchLog) :
          /\ fetchLog[i].email \in { results[k].email : k \in 1..Len(called) }
          /\ \A j \in i..Len(fetchLog) :
                IndexOf(fetchLog[i].email) <= IndexOf(fetchLog[j].email)
    /\ \A i \in 1..Len(sendLog) :
          /\ sendLog[i].email \in { results[k].email : k \in 1..Len(called) }
          /\ \A j \in i..Len(sendLog) :
                IndexOf(sendLog[i].email) <= IndexOf(sendLog[j].email)
    /\ aiUsers \subseteq { results[k].email : k \in 1..Len(called) }
    /\ \A k \in 1..Len(called) :
          LET p == ParseCategories(results[k].categories)
              asked == RequestedTopics(results[k].email)
          IN  /\ Len(asked) <= Len(p.list)
              /\ asked = SubSeq(p.list, 1, Len(asked))
              /\ CountFor(sendLog, results[k].email) > 0
                    => Len(asked) = Len(p.list)

\* C22 witness: two subscribers were loaded; the second one's source
\* requests are under way after the first one's two source requests and
\* delivery.
SecondAfterFirstWitness ==
    /\ pc = "fetch"
    /\ u = 2
    /\ Len(results) = 2
    /\ outcomes = <<"sent">>
    /\ Len(fetchLog) = 3
    /\ fetchLog[1] = [email |-> results[1].email, category |-> sScience]
    /\ fetchLog[2] = [email |-> results[1].email, category |-> sHealth]
    /\ fetchLog[3] = [email |-> results[2].email, category |-> sScience]
    /\ sendLog[1].email = results[1].email

\* C23: no step of a scheduled run writes to the users table: emails,
\* topics and active flags stay as they were and no record goes away,
\* whatever happens to the subscribers of the run.
RunLeavesStoreAlone == [][store' = store]_vars

\* C23 witness: the run is over; the first subscriber's call ended with an
\* exception and the second one's delivery failed, and both are still
\* active in the table, the first with its malformed topics.
StoreAfterFailuresWitness ==
    /\ pc = "done"
    /\ outcomes = <<"threw", "sendfailed">>
    /\ Len(store) = 2
    /\ store[1].active
    /\ store[2].active
    /\ store[1].categories = Null
    /\ <<store[1], store[2]>> = results

\* C24: every section of a subscriber's digest is headed by one of the
\* subscriber's own stored topics, the empty entry included, and each of
\* its items is an article that the request for that topic returned.
ItemsUnderOwnTopics ==
    pc = "send" =>
        /\ categoryList = ParseCategories(user.categories).list
        /\ \A n \in 1..Len(newsletter.sections) :
              \E t \in 1..Len(categoryList) :
                  /\ newsletter.sections[n].heading = ToUpperCase(categoryList[t])
                  /\ responses[t].ok
                  /\ \A i \in 1..Len(newsletter.sections[n].items) :
                        \E j \in 1..Len(responses[t].articles) :
                            /\ responses[t].articles[j].url
                                  = newsletter.sections[n].items[i].url
                            /\ responses[t].articles[j].title
                                  = newsletter.sections[n].items[i].title

\* C25: when a run completes, the console output of the handler states how
\* many digests were attempted and how many were delivered.
CompletionCountsLogged ==
    (pc = "done" /\ \E k \in 1..Len(log) : log[k].msg = "completed") =>
        \E k \in 1..Len(log) :
            /\ log[k].who = Nobody
            /\ "delivered" \in Carries(log[k].msg)

\* C26: a call of sendEmailWithResend that returned false is one whose
\* message the backend did not accept with a 2xx response: every accepted
\* message is reported as sent.
AcceptedIsReportedSent ==
    \A k \in 1..Len(sendLog) : sendLog[k].accepted => sendLog[k].ok

\* C27: a subscription request answered while a run is under way changes
\* neither the subscribers nor the topic lists the run processes: the
\* subscribers called are the records of the load query, in order, and the
\* topics parsed and requested for each are those of its loaded record,
\* whatever the table holds by then.
RunUsesLoadedRecords ==
    /\ \A i \in 1..Len(called) : called[i] = results[i].email
    /\ pc \in {"fetch", "summarize", "send"} =>
          categoryList = ParseCategories(results[u].categories).list
    /\ \A i \in 1..Len(fetchLog) :
          \E k \in 1..Len(results) :
              /\ results[k].email = fetchLog[i].email
              /\ \E t \in 1..Len(ParseCategories(results[k].categories).list) :
                    ParseCategories(results[k].categories).list[t]
                        = fetchLog[i].category
    /\ (pc = "done" /\ dbOutcome = "ok") => Len(called) = Len(results)

\* C27 witness: while the run was under way, subscriber 2 changed topic
\* to science and the table has the new topic; the run is requesting the
\* topic health of the loaded record for that subscriber.
UpsertDuringRunWitness ==
    /\ pc = "fetch"
    /\ u = 2
    /\ intake.status = 200
    /\ intake.during
    /\ intake.email = Str(EmailOf(2))
    /\ store[2] = Row(EmailOf(2), sScience, TRUE)
    /\ results[2] = Row(EmailOf(2), sHealth, TRUE)
    /\ categoryList = <<sHealth>>
    /\ c = 2
    /\ fetchLog[Len(fetchLog)] = [email |-> EmailOf(2), category |-> sHealth]

\* C28: what fetchNewsForCategories returns is the first ArticleCap (10)
\* elements, or all when there are fewer, of the article lists of the
\* topics whose request succeeded, concatenated in the order of the topic
\* list; a topic all of whose articles come after the tenth has no section
\* in the digest.
FirstTenOfConcatenation ==
    /\ pc \in {"summarize", "send"} =>
          /\ Len(articles) = (IF Len(ReturnedArticles) < ArticleCap
                               THEN Len(ReturnedArticles) ELSE ArticleCap)
          /\ \A i \in 1..Len(articles) : articles[i] = ReturnedArticles[i]
    /\ pc = "send" =>
          \A t \in 1..Len(categoryList) :
              LET before == Len(Flatten([i \in 1..(t - 1) |->
                                IF responses[i].ok THEN responses[i].articles
                                ELSE <<>>]))
              IN  (before >= ArticleCap /\ categoryList[t] # <<>>
                   /\ \A i \in 1..(t - 1) : categoryList[i] # categoryList[t])
                    => \A n \in 1..Len(newsletter.sections) :
                          newsletter.sections[n].heading
                              # ToUpperCase(categoryList[t])

\* C28 witness: science and health returned a full page each and general
\* another; the ten articles passed on are those of science and health, and
\* the digest has the sections SCIENCE and HEALTH only.
LaterTopicCutOffWitness ==
    /\ pc = "send"
    /\ categoryList = <<sScience, sHealth, sGeneral>>
    /\ \A t \in 1..3 : responses[t].ok /\ Len(responses[t].articles) = PageSize
    /\ Len(articles) = ArticleCap
    /\ articles[1].category = sScience
    /\ articles[ArticleCap].category = sHealth
    /\ Len(newsletter.sections) = 2
    /\ newsletter.sections[1].heading = ToUpperCase(sScience)
    /\ newsletter.sections[2].heading = ToUpperCase(sHealth)

\* Steps that the call of processUserNewsletter for a record can take at
\* most: the parse, a request per topic and the return of the fetch, a
\* summary per article and the composition, the delivery.  A text of n
\* characters splits into at most n + 1 topics.
CallCost(record) ==
    1 + (Len(record.categories.v) + 1 + 1) + (ArticleCap + 1) + 1

RECURSIVE CostFrom(_, _)
CostFrom(records, k) ==
    IF k > Len(records) THEN 0
    ELSE CallCost(records[k]) + CostFrom(records, k + 1)

\* A run that has not ended has a step to take: the load, the call for
\* the next record, the next request or the return of the fetch, the next
\* summary or the composition, the delivery.
CanStep ==
    \/ pc = "idle"
    \/ pc = "user" /\ u \in 1..Len(results)
    \/ pc = "fetch" /\ (c <= Len(categoryList) => SourceChoices(sourcePool) # {})
    \/ pc = "summarize" /\ (a <= Len(articles) => AiChoices(aiPool) # {})
    \/ pc = "send"

\* An upper bound of the number of steps that the run has left.
StepsLeft ==
    CASE pc = "idle" -> 1 + CostFrom(store, 1)
      [] pc = "user" -> CostFrom(results, u)
      [] pc = "fetch" ->
            (Len(categoryList) + 1 - c) + 1 + (ArticleCap + 1) + 1
                + CostFrom(results, u + 1)
      [] pc = "summarize" ->
            (Len(articles) + 1 - a) + 1 + 1 + CostFrom(results, u + 1)
      [] pc = "send" -> 1 + CostFrom(results, u + 1)
      [] OTHER -> 0

\* C29: provided every awaited call returns or throws, a scheduled run
\* comes to its end with the handler returning normally, and by then each
\* record that the load query returned has been passed to
\* processUserNewsletter exactly once, in the order returned.  Stated as:
\* a run that has not ended can always take a step, every step lowers the
\* bound StepsLeft (a natural number), and at the end of the run the
\* records called are the records loaded, in order, none of the calls
\* having let an exception out.
RunEndsAllCalledOnce ==
    /\ [](pc # "done" => CanStep)
    /\ [](StepsLeft >= 0)
    /\ [][StepsLeft' < StepsLeft]_vars
    /\ [](pc = "done" =>
            /\ Len(called) = Len(results)
            /\ \A i \in 1..Len(called) : called[i] = results[i].email
            /\ Len(outcomes) = Len(called)
            /\ \A i \in 1..Len(outcomes) : outcomes[i] # "escaped")

\* C29 witness: the run has ended after two subscribers, the first
\* without articles and the second with an exception in its call; both were
\* called once, in the order loaded.
RunEndedWitness ==
    /\ pc = "done"
    /\ dbOutcome = "ok"
    /\ Len(results) = 2
    /\ called = <<results[1].email, results[2].email>>
    /\ outcomes = <<"noarticles", "threw">>
    /\ log[Len(log)] = Info("completed", Nobody)

\* C30: after a successful subscription with category list L, the topic
\* list that processUserNewsletter derives from the stored record of the
\* email (split on "," and trimmed) is L.
TopicsRoundTrip ==
    intake.status = 200 =>
        \A i \in 1..Len(store) :
            store[i].email = intake.email.v
                => ParseCategories(store[i].categories).list = intake.categories

====
